---- MODULE Spec2Model ----
(***************************************************************************)
(* A model of error-forge's recovery engine:                               *)
(*   - recovery/circuit_breaker.rs : CircuitBreaker shared by several      *)
(*     callers (threads), with its Mutex, its lazy Open -> HalfOpen        *)
(*     transition and its sliding failure window;                          *)
(*   - recovery/retry.rs           : RetryExecutor::retry and              *)
(*     retry_with_handler, RetryPolicy;                                    *)
(*   - recovery/backoff.rs         : the Backoff implementations.          *)
(* Time is a discrete monotonic clock in milliseconds (Instant::now()      *)
(* reads `now`).                                                           *)
(***************************************************************************)
EXTENDS Integers, Sequences, FiniteSets, TLC

(***************************************************************************)
(* Bounds of the model.                                                    *)
(***************************************************************************)
NumCallers == 2
MaxTime == 3
MaxCalls == 3
MaxThreshold == 2
MaxWindow == 1
MaxTimeout == 2
MaxRetries == 2
MaxRetryCalls == 2
MaxAttempt == 3
U64Max == 65535
I32Max == 7

Callers == 1..NumCallers
NoCaller == 0

\* The breaker's name (CircuitBreaker.name); tests/recovery_test.rs uses "test-circuit".
name == "test-circuit"

\* enum CircuitState
CircuitState == {"Closed", "Open", "HalfOpen"}

\* struct CircuitBreakerConfig: the configurations the model explores (the smallest
\* and the largest value of each field).
CircuitBreakerConfig ==
    [failure_threshold : {1, MaxThreshold},
     failure_window_ms : {0, MaxWindow},
     reset_timeout_ms  : {1, MaxTimeout}]

VARIABLES
    inner,      \* CircuitBreakerInner: config, state, failures, last_state_change
    lock,       \* holder of the Mutex around inner (NoCaller when free)
    now,        \* the monotonic clock read by Instant::now()
    pc,         \* per caller: where it is inside execute / reset / state
    invoked,    \* per caller: invocations of f() made by its current or last execute
    ret,        \* per caller: what its last completed call returned
    probe,      \* history: the caller whose pre-check made the latest Open -> HalfOpen
                \* transition and has not recorded its outcome yet (NoCaller otherwise)
    flog,       \* history: the instants at which on_failure recorded a failed call
    ncalls      \* number of public calls started so far (bounds the run)

cbvars == <<inner, lock, now, pc, invoked, ret, probe, flog, ncalls>>

\* Return values of the public operations.
RetNone == [kind |-> "None", val |-> ""]
\* execute's Ok(value), with the number of failure timestamps on_success found
\* (history)
RetOk(seen) == [kind |-> "Ok", val |-> "", seen |-> seen]
RetErr == [kind |-> "Err", val |-> "operation error"]
RetUnit == [kind |-> "Unit", val |-> ""]
\* state()'s return value, with the instant of the snapshot (history)
RetState(s, t) == [kind |-> "State", val |-> s, at |-> t]

\* CircuitOpenError::new(&self.name)
CircuitOpenError(circuit_name) == [kind |-> "CircuitOpen", val |-> circuit_name]

(***************************************************************************)
(* The bodies of the critical sections, as functions of the guarded data   *)
(* and of the instant t that Instant::now() returns inside them.           *)
(***************************************************************************)

\* Duration arithmetic: Instant::duration_since saturates at zero.
duration_since(t, earlier) == IF t >= earlier THEN t - earlier ELSE 0

\* Faulty variant of update_state: moves to HalfOpen without waiting for reset_timeout.
update_state_eager(in, t) ==
    IF in.state = "Open"
    THEN [in EXCEPT !.state = "HalfOpen", !.last_state_change = t]
    ELSE in

\* Faulty variant of update_state: last_state_change is not written.
update_state_no_stamp(in, t) ==
    IF in.state = "Open"
    THEN IF duration_since(t, in.last_state_change) >= in.config.reset_timeout_ms
         THEN [in EXCEPT !.state = "HalfOpen"]
         ELSE in
    ELSE in

\* Faulty variant of update_state: an Open breaker never becomes HalfOpen.
update_state_stuck(in, t) == in

\* CircuitBreaker::update_state
update_state(in, t) ==
    IF in.state = "Open"
    THEN IF duration_since(t, in.last_state_change) >= in.config.reset_timeout_ms
         THEN [in EXCEPT !.state = "HalfOpen", !.last_state_change = t]
         ELSE in
    ELSE in

\* Faulty variant of can_proceed: never fails fast.
can_proceed_always(in) == TRUE

\* `inner.state != CircuitState::Open` at the end of execute's pre-check
can_proceed(in) == in.state # "Open"

\* Faulty variant of on_success: a success closes an Open breaker as well.
on_success_any_state(in, t) ==
    IF in.state # "Closed"
    THEN [in EXCEPT !.state = "Closed", !.failures = <<>>, !.last_state_change = t]
    ELSE in

\* Faulty variant of on_success: a success recorded while Closed clears the history.
on_success_clears_in_closed(in, t) ==
    IF in.state = "HalfOpen"
    THEN [in EXCEPT !.state = "Closed", !.failures = <<>>, !.last_state_change = t]
    ELSE IF in.state = "Closed" THEN [in EXCEPT !.failures = <<>>] ELSE in

\* Faulty variant of on_success: failures.clear() is left out.
on_success_keeps_history(in, t) ==
    IF in.state = "HalfOpen"
    THEN [in EXCEPT !.state = "Closed", !.last_state_change = t]
    ELSE in

\* CircuitBreaker::on_success
on_success(in, t) ==
    IF in.state = "HalfOpen"
    THEN [in EXCEPT !.state = "Closed", !.failures = <<>>, !.last_state_change = t]
    ELSE in

\* `inner.failures.retain(|&time| time >= window_start)`
retain(fs, window_start) == SelectSeq(fs, LAMBDA time : time >= window_start)

\* Faulty variant of on_failure: the retain of old timestamps is left out.
on_failure_no_prune(in, t) ==
    IF in.state = "HalfOpen"
    THEN [in EXCEPT !.state = "Open", !.last_state_change = t]
    ELSE LET pushed == Append(in.failures, t)
         IN  IF in.state = "Closed" /\ Len(pushed) >= in.config.failure_threshold
             THEN [in EXCEPT !.failures = pushed, !.state = "Open",
                             !.last_state_change = t]
             ELSE [in EXCEPT !.failures = pushed]

\* Faulty variant of on_failure: trips at more than failure_threshold failures.
on_failure_off_by_one(in, t) ==
    IF in.state = "HalfOpen"
    THEN [in EXCEPT !.state = "Open", !.last_state_change = t]
    ELSE LET pushed == Append(in.failures, t)
             window_start == t - in.config.failure_window_ms
             kept == retain(pushed, window_start)
         IN  IF in.state = "Closed" /\ Len(kept) > in.config.failure_threshold
             THEN [in EXCEPT !.failures = kept, !.state = "Open",
                             !.last_state_change = t]
             ELSE [in EXCEPT !.failures = kept]

\* CircuitBreaker::on_failure
on_failure(in, t) ==
    IF in.state = "HalfOpen"
    THEN [in EXCEPT !.state = "Open", !.last_state_change = t]
    ELSE LET pushed == Append(in.failures, t)
             window_start == t - in.config.failure_window_ms
             kept == retain(pushed, window_start)
         IN  IF in.state = "Closed" /\ Len(kept) >= in.config.failure_threshold
             THEN [in EXCEPT !.failures = kept, !.state = "Open",
                             !.last_state_change = t]
             ELSE [in EXCEPT !.failures = kept]

\* Faulty variant of reset: failures.clear() is left out.
reset_keeps_history(in, t) ==
    [in EXCEPT !.state = "Closed", !.last_state_change = t]

\* CircuitBreaker::reset (body)
reset(in, t) ==
    [in EXCEPT !.state = "Closed", !.failures = <<>>, !.last_state_change = t]

\* Faulty variant of state: runs update_state before reading.
state_with_update(in, t) == update_state(in, t)

\* CircuitBreaker::state (body): reads inner.state, writes nothing
state(in, t) == in

\* Faulty variant of PreCheckGuardDrop: the guard lives until execute returns.
PreCheckKeepsLock(c) == c

\* The MutexGuard of execute's pre-check block is dropped at the end of the block,
\* before f() is called.
PreCheckGuardDrop(c) == NoCaller

(***************************************************************************)
(* Initial state: CircuitBreaker::with_config at instant 0.                *)
(***************************************************************************)
with_config(config, t) ==
    [config |-> config, state |-> "Closed", failures |-> <<>>,
     last_state_change |-> t]

CBInit ==
    /\ now = 0
    /\ inner \in {with_config(cfg, 0) : cfg \in CircuitBreakerConfig}
    /\ lock = NoCaller
    /\ pc = [c \in Callers |-> "idle"]
    /\ invoked = [c \in Callers |-> 0]
    /\ ret = [c \in Callers |-> RetNone]
    /\ probe = NoCaller
    /\ flog = <<>>
    /\ ncalls = 0

(***************************************************************************)
(* The clock advances independently of the callers.                        *)
(***************************************************************************)
Tick ==
    /\ now < MaxTime
    /\ now' = now + 1
    /\ UNCHANGED <<inner, lock, pc, invoked, ret, probe, flog, ncalls>>

(***************************************************************************)
(* execute: `self.inner.lock().unwrap()` of the pre-check.                 *)
(***************************************************************************)
ExecuteLock(c) ==
    /\ pc[c] = "idle"
    /\ ncalls < MaxCalls
    /\ lock = NoCaller
    /\ lock' = c
    /\ pc' = [pc EXCEPT ![c] = "pre"]
    /\ invoked' = [invoked EXCEPT ![c] = 0]
    /\ ret' = [ret EXCEPT ![c] = RetNone]
    /\ ncalls' = ncalls + 1
    /\ UNCHANGED <<inner, now, probe, flog>>

\* execute: update_state, can_proceed, guard dropped; then either the fail-fast
\* return or the call of f().
ExecutePreCheck(c) ==
    /\ pc[c] = "pre"
    /\ lock = c
    /\ LET new == update_state(inner, now)
       IN  /\ inner' = new
           /\ probe' = IF inner.state = "Open" /\ new.state = "HalfOpen"
                       THEN c ELSE probe
           /\ IF can_proceed(new)
              THEN /\ pc' = [pc EXCEPT ![c] = "running"]
                   /\ invoked' = [invoked EXCEPT ![c] = invoked[c] + 1]
                   /\ lock' = PreCheckGuardDrop(c)
                   /\ UNCHANGED ret
              ELSE /\ pc' = [pc EXCEPT ![c] = "idle"]
                   /\ ret' = [ret EXCEPT ![c] = CircuitOpenError(name)]
                   /\ lock' = NoCaller
                   /\ UNCHANGED invoked
    /\ UNCHANGED <<now, flog, ncalls>>

\* f() returns Ok(value); execute calls on_success, which takes the lock.
OperationOk(c) ==
    /\ pc[c] = "running"
    /\ lock = NoCaller
    /\ lock' = c
    /\ pc' = [pc EXCEPT ![c] = "on_success"]
    /\ UNCHANGED <<inner, now, invoked, ret, probe, flog, ncalls>>

\* f() returns Err(err); execute calls on_failure, which takes the lock.
OperationErr(c) ==
    /\ pc[c] = "running"
    /\ lock = NoCaller
    /\ lock' = c
    /\ pc' = [pc EXCEPT ![c] = "on_failure"]
    /\ UNCHANGED <<inner, now, invoked, ret, probe, flog, ncalls>>

\* on_success under the lock, then execute returns Ok(value).
OnSuccess(c) ==
    /\ pc[c] = "on_success"
    /\ lock = c
    /\ inner' = on_success(inner, now)
    /\ lock' = NoCaller
    /\ pc' = [pc EXCEPT ![c] = "idle"]
    /\ ret' = [ret EXCEPT ![c] = RetOk(Len(inner.failures))]
    /\ probe' = IF probe = c THEN NoCaller ELSE probe
    /\ UNCHANGED <<now, invoked, flog, ncalls>>

\* on_failure under the lock, then execute returns Err(Box::new(err)).
OnFailure(c) ==
    /\ pc[c] = "on_failure"
    /\ lock = c
    /\ inner' = on_failure(inner, now)
    /\ lock' = NoCaller
    /\ pc' = [pc EXCEPT ![c] = "idle"]
    /\ ret' = [ret EXCEPT ![c] = RetErr]
    /\ probe' = IF probe = c THEN NoCaller ELSE probe
    /\ flog' = Append(flog, now)
    /\ UNCHANGED <<now, invoked, ncalls>>

\* reset: takes the lock.
ResetLock(c) ==
    /\ pc[c] = "idle"
    /\ ncalls < MaxCalls
    /\ lock = NoCaller
    /\ lock' = c
    /\ pc' = [pc EXCEPT ![c] = "reset"]
    /\ invoked' = [invoked EXCEPT ![c] = 0]
    /\ ret' = [ret EXCEPT ![c] = RetNone]
    /\ ncalls' = ncalls + 1
    /\ UNCHANGED <<inner, now, probe, flog>>

\* reset: body, guard dropped on return.
Reset(c) ==
    /\ pc[c] = "reset"
    /\ lock = c
    /\ inner' = reset(inner, now)
    /\ lock' = NoCaller
    /\ pc' = [pc EXCEPT ![c] = "idle"]
    /\ ret' = [ret EXCEPT ![c] = RetUnit]
    /\ probe' = NoCaller
    /\ UNCHANGED <<now, invoked, flog, ncalls>>

\* state(): takes the lock.
StateLock(c) ==
    /\ pc[c] = "idle"
    /\ ncalls < MaxCalls
    /\ lock = NoCaller
    /\ lock' = c
    /\ pc' = [pc EXCEPT ![c] = "state"]
    /\ invoked' = [invoked EXCEPT ![c] = 0]
    /\ ret' = [ret EXCEPT ![c] = RetNone]
    /\ ncalls' = ncalls + 1
    /\ UNCHANGED <<inner, now, probe, flog>>

\* state(): returns inner.state, guard dropped on return.
State(c) ==
    /\ pc[c] = "state"
    /\ lock = c
    /\ LET new == state(inner, now)
       IN  /\ inner' = new
           /\ ret' = [ret EXCEPT ![c] = RetState(new.state, now)]
    /\ lock' = NoCaller
    /\ pc' = [pc EXCEPT ![c] = "idle"]
    /\ UNCHANGED <<now, invoked, probe, flog, ncalls>>

(***************************************************************************)
(* The breaker in service for an unbounded time: the clock never stops,    *)
(* execute keeps being called, and the operation fails only during the     *)
(* first MaxCalls calls.  The code reads instants only through             *)
(* now.duration_since(..) and compares the result with failure_window and  *)
(* reset_timeout, both at most MaxTime, so from MaxTime on the clock is    *)
(* kept relative: an instant later, every stored instant is one further in *)
(* the past (at most MaxTime in the past).                                 *)
(***************************************************************************)
earlier(t) == IF t > 0 THEN t - 1 ELSE 0

Elapse ==
    IF now < MaxTime
    THEN /\ now' = now + 1
         /\ UNCHANGED inner
    ELSE /\ now' = now
         /\ inner' = [inner EXCEPT
                !.failures = [i \in DOMAIN inner.failures |-> earlier(inner.failures[i])],
                !.last_state_change = earlier(inner.last_state_change)]

HealTick ==
    /\ Elapse
    /\ UNCHANGED <<lock, pc, invoked, ret, probe, flog, ncalls>>

\* execute called once more, after the first MaxCalls calls.
ExecuteLockAgain(c) ==
    /\ pc[c] = "idle"
    /\ ncalls = MaxCalls
    /\ lock = NoCaller
    /\ lock' = c
    /\ pc' = [pc EXCEPT ![c] = "pre"]
    /\ invoked' = [invoked EXCEPT ![c] = 0]
    /\ ret' = [ret EXCEPT ![c] = RetNone]
    /\ UNCHANGED <<inner, now, probe, flog, ncalls>>

\* f() returns Err(err) only while some of the first MaxCalls calls are left.
OperationErrEarly(c) ==
    /\ ncalls < MaxCalls
    /\ OperationErr(c)

(***************************************************************************)
(* recovery/retry.rs: one RetryExecutor and the retry calls made on it.    *)
(***************************************************************************)
VARIABLES
    executor,   \* RetryExecutor: max_retries, backoff, retry_if
    r_pc,       \* "idle" | "invoke" (about to call operation()) | "sleep" | "done"
    attempt,    \* the local `attempt` of the running retry call
    delay,      \* the local `delay` being slept
    log,        \* history: outcome of each invocation of operation() in this call
    sleeps,     \* history: the delays of the completed thread::sleep calls of this call
    r_ret,      \* what the last retry call returned
    rcalls      \* number of retry calls started so far (bounds the run)

rtvars == <<executor, r_pc, attempt, delay, log, sleeps, r_ret, rcalls>>

\* The error values operations fail with (tests/recovery_test.rs: TestError("retry"),
\* TestError("stop")).
Errors == {"retry", "stop"}

\* The variants of AppError (error.rs), the ForgeError type operations run through
\* forge_executor fail with.
AppErrors == {"Config", "Filesystem", "Network", "Other"}

\* AppError::is_retryable: `matches!(self, Self::Network { .. })`
is_retryable(err) == err = "Network"

Min(a, b) == IF a <= b THEN a ELSE b

RECURSIVE powi(_, _)
\* f64::powi for the integral factors used here
powi(x, n) == IF n = 0 THEN 1 ELSE x * powi(x, n - 1)

\* ExponentialBackoff::new (jitter off)
ExponentialBackoff_new ==
    [kind |-> "Exponential", initial_delay_ms |-> 100, max_delay_ms |-> 30000,
     factor |-> 2, jitter |-> FALSE]

\* LinearBackoff::new
LinearBackoff_new ==
    [kind |-> "Linear", initial_delay_ms |-> 100, increment_ms |-> 100,
     max_delay_ms |-> 10000]

\* FixedBackoff::new
FixedBackoff_new(delay_ms) == [kind |-> "Fixed", delay_ms |-> delay_ms]

\* recovery/backoff.rs.  u64 is scaled down to 0..U64Max (U64Max stands for
\* u64::MAX) and i32 to -(I32Max + 1)..I32Max (I32Max stands for i32::MAX); the f64
\* factors are the integral ones and the jitter factor is in percent.
\* `x as u64` for a non-negative f64: saturating
as_u64(x) == IF x > U64Max THEN U64Max ELSE x

\* with_initial_delay / with_max_delay / with_factor / with_jitter / with_increment
with_initial_delay(b, delay_ms) == [b EXCEPT !.initial_delay_ms = delay_ms]
with_max_delay(b, delay_ms) == [b EXCEPT !.max_delay_ms = delay_ms]
with_factor(b, factor) == [b EXCEPT !.factor = factor]
with_jitter(b, jitter) == [b EXCEPT !.jitter = jitter]
with_increment(b, increment_ms) == [b EXCEPT !.increment_ms = increment_ms]

\* The values rng.gen_range(0.8..1.2) is drawn from, in percent.
JitterFactors == {80, 100, 119}

Duration_from_millis(ms) == [kind |-> "Duration", ms |-> ms]
Panic == [kind |-> "Panic", ms |-> 0]
NoDuration == [kind |-> "None", ms |-> 0]

\* `attempt as i32` for a usize: the low bits, read as two's complement
as_i32(n) ==
    LET low == n % (2 * (I32Max + 1))
    IN  IF low > I32Max THEN low - 2 * (I32Max + 1) ELSE low

\* `(initial_delay_ms as f64 * factor.powi(e)) as u64` for an integral factor >= 1:
\* a negative exponent divides, and the cast truncates and saturates
scaled_delay(initial_delay_ms, factor, e) ==
    IF e >= 0
    THEN as_u64(initial_delay_ms * powi(factor, e))
    ELSE initial_delay_ms \div powi(factor, 0 - e)

\* <ExponentialBackoff as Backoff>::next_delay, jitter_factor being the random draw
ExponentialBackoff_next_delay(b, n, jitter_factor) ==
    IF n = 0 THEN Duration_from_millis(b.initial_delay_ms)
    ELSE LET calculated_delay == scaled_delay(b.initial_delay_ms, b.factor, as_i32(n))
             capped_delay == Min(calculated_delay, b.max_delay_ms)
         IN  IF b.jitter
             THEN Duration_from_millis(as_u64((capped_delay * jitter_factor) \div 100))
             ELSE Duration_from_millis(capped_delay)

\* <LinearBackoff as Backoff>::next_delay: the outcomes a build can produce.  An
\* overflow of `attempt as u64 * increment_ms` or of the sum panics where overflow
\* checks are on and wraps where they are off.
LinearBackoff_next_delay(b, n) ==
    LET product == n * b.increment_ms
        wrapped == (b.initial_delay_ms + (product % (U64Max + 1))) % (U64Max + 1)
        overflows == \/ product > U64Max
                     \/ b.initial_delay_ms + product > U64Max
    IN  IF overflows
        THEN {Panic, Duration_from_millis(Min(wrapped, b.max_delay_ms))}
        ELSE {Duration_from_millis(Min(b.initial_delay_ms + product, b.max_delay_ms))}

\* <FixedBackoff as Backoff>::next_delay
FixedBackoff_next_delay(b, n) == Duration_from_millis(b.delay_ms)

\* BackoffStrategy::next_delay: the delay of the strategy an executor holds.  The
\* executors hold the configurations of new() only (jitter off, no overflow within the
\* retry budget), for which next_delay has one outcome.
next_delay(b, n) ==
    LET outcomes ==
            CASE b.kind = "Exponential" ->
                    {ExponentialBackoff_next_delay(b, n, jf) : jf \in JitterFactors}
              [] b.kind = "Linear" -> LinearBackoff_next_delay(b, n)
              [] b.kind = "Fixed" -> {FixedBackoff_next_delay(b, n)}
    IN  (CHOOSE o \in outcomes : o.kind = "Duration").ms

\* The default retry budget of the convenience constructors.
DefaultMaxRetries == 3

\* Faulty variant of RetryExecutor_new: a default budget of 2 retries, 3 attempts.
RetryExecutor_new_three_attempts(backoff) ==
    [max_retries |-> DefaultMaxRetries - 1, backoff |-> backoff, retry_if |-> "None"]

\* RetryExecutor::new_exponential / new_linear / new_fixed
RetryExecutor_new(backoff) ==
    [max_retries |-> DefaultMaxRetries, backoff |-> backoff, retry_if |-> "None"]

\* RetryExecutor::with_max_retries
with_max_retries(e, max_retries) == [e EXCEPT !.max_retries = max_retries]

\* RetryExecutor::with_retry_if; the predicate of the tests is |err| err.0 == "retry"
with_retry_if(e, predicate) == [e EXCEPT !.retry_if = predicate]

Predicates == {"IsRetry", "Never"}

\* Faulty variant of should_retry: the predicate is ignored.
should_retry_always(e, err) == TRUE

\* `match &self.retry_if { Some(predicate) => predicate(&err), None => true }`;
\* "IsRetryable" is the closure |err| err.is_retryable() of forge_executor.
should_retry(e, err) ==
    CASE e.retry_if = "None" -> TRUE
      [] e.retry_if = "IsRetry" -> err = "retry"
      [] e.retry_if = "Never" -> FALSE
      [] e.retry_if = "IsRetryable" -> is_retryable(err)

\* Faulty variant of budget_exhausted: one retry too many.
budget_exhausted_late(e, n) == n > e.max_retries

\* `attempt >= self.max_retries`
budget_exhausted(e, n) == n >= e.max_retries

\* The default retry budget of RetryPolicy::new_exponential / new_linear / new_fixed.
PolicyDefaultMaxRetries == 3

\* enum BackoffType { Exponential, Linear, Fixed(u64) }; delay_ms is the payload of
\* Fixed and is not used by the other variants.
BackoffType_Exponential == [kind |-> "Exponential", delay_ms |-> 0]
BackoffType_Linear == [kind |-> "Linear", delay_ms |-> 0]
BackoffType_Fixed(delay_ms) == [kind |-> "Fixed", delay_ms |-> delay_ms]

\* RetryPolicy::new_exponential / new_linear / new_fixed
RetryPolicy_new(backoff_type) ==
    [max_retries |-> PolicyDefaultMaxRetries, backoff_type |-> backoff_type]

\* RetryPolicy::default
RetryPolicy_default == RetryPolicy_new(BackoffType_Exponential)

\* RetryPolicy::with_max_retries
policy_with_max_retries(p, max_retries) == [p EXCEPT !.max_retries = max_retries]

\* RetryPolicy::executor
policy_executor(p) ==
    with_max_retries(
        CASE p.backoff_type.kind = "Exponential" ->
                RetryExecutor_new(ExponentialBackoff_new)
          [] p.backoff_type.kind = "Linear" -> RetryExecutor_new(LinearBackoff_new)
          [] p.backoff_type.kind = "Fixed" ->
                RetryExecutor_new(FixedBackoff_new(p.backoff_type.delay_ms)),
        p.max_retries)

\* Faulty variant of forge_executor: the is_retryable predicate is not installed.
forge_executor_no_predicate(p) == policy_executor(p)

\* RetryPolicy::forge_executor
forge_executor(p) == with_retry_if(policy_executor(p), "IsRetryable")

\* ForgeErrorRecovery::create_retry_policy
create_retry_policy(max_retries) ==
    policy_with_max_retries(RetryPolicy_new(BackoffType_Exponential), max_retries)

\* The policies the model explores.
Policies ==
    LET base == {RetryPolicy_new(BackoffType_Exponential),
                 RetryPolicy_new(BackoffType_Linear),
                 RetryPolicy_new(BackoffType_Fixed(10))}
    IN  base \cup {policy_with_max_retries(p, m) : p \in base, m \in 0..MaxRetries}

\* The executors of ForgeErrorRecovery::retry and of RetryPolicy::forge_executor.
ForgeExecutors ==
    {forge_executor(create_retry_policy(m)) : m \in 0..MaxRetries}
        \cup {forge_executor(p) : p \in Policies}

\* The executors of the convenience constructors with no with_max_retries.
DefaultExecutors ==
    {RetryExecutor_new(ExponentialBackoff_new), RetryExecutor_new(LinearBackoff_new),
     RetryExecutor_new(FixedBackoff_new(10))}
        \cup {policy_executor(RetryPolicy_new(t)) :
                    t \in {BackoffType_Exponential, BackoffType_Linear,
                           BackoffType_Fixed(10)}}
        \cup {policy_executor(RetryPolicy_default)}

\* The executors the model explores.
Executors ==
    LET base == {RetryExecutor_new(ExponentialBackoff_new),
                 RetryExecutor_new(LinearBackoff_new),
                 RetryExecutor_new(FixedBackoff_new(10))}
        sized == base \cup {with_max_retries(e, m) : e \in base, m \in 0..MaxRetries}
                      \cup {policy_executor(p) : p \in Policies}
    IN  sized \cup {with_retry_if(e, p) : e \in sized, p \in Predicates}
              \cup ForgeExecutors

\* The error type E of an executor: AppError behind forge_executor, TestError else.
ErrorsOf(e) == IF e \in ForgeExecutors THEN AppErrors ELSE Errors

RetNoneR == [kind |-> "None", val |-> ""]

RTInit ==
    /\ executor \in Executors
    /\ r_pc = "idle"
    /\ attempt = 0
    /\ delay = 0
    /\ log = <<>>
    /\ sleeps = <<>>
    /\ r_ret = RetNoneR
    /\ rcalls = 0

\* Faulty variant of RetryStart: the delay index starts at 1.
RetryStart_from_one ==
    /\ r_pc \in {"idle", "done"}
    /\ rcalls < MaxRetryCalls
    /\ rcalls' = rcalls + 1
    /\ r_pc' = "invoke"
    /\ attempt' = 1
    /\ delay' = 0
    /\ log' = <<>>
    /\ sleeps' = <<>>
    /\ r_ret' = RetNoneR
    /\ UNCHANGED executor

\* Faulty variant of RetryStart: the attempt counter is kept from the previous call,
\* as if it were a field of the executor.
RetryStart_keeps_attempt ==
    /\ r_pc \in {"idle", "done"}
    /\ rcalls < MaxRetryCalls
    /\ rcalls' = rcalls + 1
    /\ r_pc' = "invoke"
    /\ delay' = 0
    /\ log' = <<>>
    /\ sleeps' = <<>>
    /\ r_ret' = RetNoneR
    /\ UNCHANGED <<executor, attempt>>

\* retry(): `let mut attempt = 0; loop {`
RetryStart ==
    /\ r_pc \in {"idle", "done"}
    /\ rcalls < MaxRetryCalls
    /\ rcalls' = rcalls + 1
    /\ r_pc' = "invoke"
    /\ attempt' = 0
    /\ delay' = 0
    /\ log' = <<>>
    /\ sleeps' = <<>>
    /\ r_ret' = RetNoneR
    /\ UNCHANGED executor

\* Faulty variant of InvokeOk: a success is slept on and followed by another
\* invocation while budget remains.
InvokeOk_continues ==
    /\ r_pc = "invoke"
    /\ log' = Append(log, "Ok")
    /\ r_ret' = [kind |-> "Ok", val |-> ""]
    /\ r_pc' = IF budget_exhausted(executor, attempt) THEN "done" ELSE "sleep"
    /\ UNCHANGED <<executor, attempt, delay, sleeps, rcalls>>

\* `match operation() { Ok(value) => return Ok(value), ...`
InvokeOk ==
    /\ r_pc = "invoke"
    /\ log' = Append(log, "Ok")
    /\ r_ret' = [kind |-> "Ok", val |-> ""]
    /\ r_pc' = "done"
    /\ UNCHANGED <<executor, attempt, delay, sleeps, rcalls>>

\* Faulty variant of InvokeErr: the error of the first invocation is returned.
InvokeErr_first_error(err) ==
    /\ r_pc = "invoke"
    /\ log' = Append(log, err)
    /\ IF budget_exhausted(executor, attempt) \/ ~should_retry(executor, err)
       THEN /\ r_ret' = [kind |-> "Err", val |-> log'[1]]
            /\ r_pc' = "done"
            /\ UNCHANGED delay
       ELSE /\ delay' = next_delay(executor.backoff, attempt)
            /\ r_pc' = "sleep"
            /\ UNCHANGED r_ret
    /\ UNCHANGED <<executor, attempt, sleeps, rcalls>>

\* `Err(err) => { ... }`: budget check, predicate check, then the sleep begins
InvokeErr(err) ==
    /\ r_pc = "invoke"
    /\ log' = Append(log, err)
    /\ IF budget_exhausted(executor, attempt) \/ ~should_retry(executor, err)
       THEN /\ r_ret' = [kind |-> "Err", val |-> err]
            /\ r_pc' = "done"
            /\ UNCHANGED delay
       ELSE /\ delay' = next_delay(executor.backoff, attempt)
            /\ r_pc' = "sleep"
            /\ UNCHANGED r_ret
    /\ UNCHANGED <<executor, attempt, sleeps, rcalls>>

\* thread::sleep(delay) returns; `attempt += 1`
Wake ==
    /\ r_pc = "sleep"
    /\ sleeps' = Append(sleeps, delay)
    /\ attempt' = attempt + 1
    /\ r_pc' = "invoke"
    /\ UNCHANGED <<executor, delay, log, r_ret, rcalls>>

(***************************************************************************)
(* recovery/retry.rs: a second call, made concurrently with the first on   *)
(* another thread through an executor built from the same policy (an       *)
(* executor equal to `executor`).  The call is retry or                    *)
(* retry_with_handler; the latter calls the observer on_error, which       *)
(* returns or panics.                                                      *)
(***************************************************************************)
VARIABLES
    h_fn,       \* "retry" | "retry_with_handler": the function being called
    h_pc,       \* "idle" | "invoke" | "observe" (about to call on_error) | "sleep" |
                \* "done" | "unwound" (a panic of on_error has left the function)
    h_attempt,  \* the local `attempt`
    h_delay,    \* the local `delay`
    h_log,      \* history: outcome of each invocation of operation() in this call
    h_sleeps,   \* history: the delays of the completed thread::sleep calls
    h_ret,      \* what the call returned
    observed,   \* history: the arguments of each on_error call and how it ended
    hcalls      \* number of calls started so far (bounds the run)

hvars == <<h_fn, h_pc, h_attempt, h_delay, h_log, h_sleeps, h_ret, observed, hcalls>>

RetryFns == {"retry", "retry_with_handler"}

HInit ==
    /\ h_fn = "retry"
    /\ h_pc = "idle"
    /\ h_attempt = 0
    /\ h_delay = 0
    /\ h_log = <<>>
    /\ h_sleeps = <<>>
    /\ h_ret = RetNoneR
    /\ observed = <<>>
    /\ hcalls = 0

\* retry() / retry_with_handler(): `let mut attempt = 0; loop {`
HandlerStart(fn) ==
    /\ h_pc \in {"idle", "done"}
    /\ hcalls < MaxRetryCalls
    /\ hcalls' = hcalls + 1
    /\ h_fn' = fn
    /\ h_pc' = "invoke"
    /\ h_attempt' = 0
    /\ h_delay' = 0
    /\ h_log' = <<>>
    /\ h_sleeps' = <<>>
    /\ h_ret' = RetNoneR
    /\ observed' = <<>>

\* `Ok(value) => return Ok(value)`
HandlerInvokeOk ==
    /\ h_pc = "invoke"
    /\ h_log' = Append(h_log, "Ok")
    /\ h_ret' = [kind |-> "Ok", val |-> ""]
    /\ h_pc' = "done"
    /\ UNCHANGED <<h_fn, h_attempt, h_delay, h_sleeps, observed, hcalls>>

\* `Err(err) => { ... }`: budget check, predicate check, `let delay = ...`; then
\* retry_with_handler is about to call on_error and retry is about to sleep
HandlerInvokeErr(err) ==
    /\ h_pc = "invoke"
    /\ h_log' = Append(h_log, err)
    /\ IF budget_exhausted(executor, h_attempt) \/ ~should_retry(executor, err)
       THEN /\ h_ret' = [kind |-> "Err", val |-> err]
            /\ h_pc' = "done"
            /\ UNCHANGED h_delay
       ELSE /\ h_delay' = next_delay(executor.backoff, h_attempt)
            /\ h_pc' = IF h_fn = "retry_with_handler" THEN "observe" ELSE "sleep"
            /\ UNCHANGED h_ret
    /\ UNCHANGED <<h_fn, h_attempt, h_sleeps, observed, hcalls>>

\* The arguments of `on_error(&err, attempt, delay)`
on_error_args(panicked) ==
    [err |-> h_log[Len(h_log)], attempt |-> h_attempt, delay |-> h_delay,
     panicked |-> panicked]

\* `on_error(&err, attempt, delay);` returns; thread::sleep(delay) begins
OnErrorReturns ==
    /\ h_pc = "observe"
    /\ observed' = Append(observed, on_error_args(FALSE))
    /\ h_pc' = "sleep"
    /\ UNCHANGED <<h_fn, h_attempt, h_delay, h_log, h_sleeps, h_ret, hcalls>>

\* `on_error(&err, attempt, delay);` panics: nothing in retry_with_handler catches
\* the unwinding, which leaves the function without a sleep or a return value
OnErrorPanics ==
    /\ h_pc = "observe"
    /\ observed' = Append(observed, on_error_args(TRUE))
    /\ h_pc' = "unwound"
    /\ UNCHANGED <<h_fn, h_attempt, h_delay, h_log, h_sleeps, h_ret, hcalls>>

\* thread::sleep(delay) returns; `attempt += 1`
HandlerWake ==
    /\ h_pc = "sleep"
    /\ h_sleeps' = Append(h_sleeps, h_delay)
    /\ h_attempt' = h_attempt + 1
    /\ h_pc' = "invoke"
    /\ UNCHANGED <<h_fn, h_delay, h_log, h_ret, observed, hcalls>>

(***************************************************************************)
(* recovery/backoff.rs: next_delay calls on one backoff value, the Backoff  *)
(* implementations being pure functions of configuration and attempt.      *)
(***************************************************************************)
VARIABLES
    backoff,    \* the ExponentialBackoff / LinearBackoff / FixedBackoff value
    b_attempt,  \* the argument of the last next_delay call
    b_out       \* its outcome: a Duration in ms, or a panic

bvars == <<backoff, b_attempt, b_out>>

\* The configurations and attempts the model explores.
Backoffs ==
    {with_jitter(with_factor(with_max_delay(with_initial_delay(
                    ExponentialBackoff_new, i), m), f), j) :
        i \in {0, 3, 100, 500}, m \in {300, 30000}, f \in {1, 2}, j \in BOOLEAN}
    \cup {with_max_delay(with_increment(with_initial_delay(LinearBackoff_new, i), c), m) :
        i \in {0, 100, U64Max}, c \in {0, 100, U64Max}, m \in {300, 10000}}
    \cup {FixedBackoff_new(10)}

\* Small attempts, and the first attempt that `attempt as i32` does not hold.
Attempts == (0..MaxAttempt) \cup {I32Max + 1}

BInit ==
    /\ backoff \in Backoffs
    /\ b_attempt = 0
    /\ b_out = NoDuration

ExponentialNextDelay(n, jitter_factor) ==
    /\ backoff.kind = "Exponential"
    /\ b_attempt' = n
    /\ b_out' = ExponentialBackoff_next_delay(backoff, n, jitter_factor)
    /\ UNCHANGED backoff

LinearNextDelay(n) ==
    /\ backoff.kind = "Linear"
    /\ b_attempt' = n
    /\ b_out' \in LinearBackoff_next_delay(backoff, n)
    /\ UNCHANGED backoff

FixedNextDelay(n) ==
    /\ backoff.kind = "Fixed"
    /\ b_attempt' = n
    /\ b_out' = FixedBackoff_next_delay(backoff, n)
    /\ UNCHANGED backoff

(***************************************************************************)
(* Specifications.  Spec: the circuit breaker and its callers.  RetrySpec: *)
(* retry calls on one executor.  PolicySpec: retry calls on one executor   *)
(* and, concurrently, retry or retry_with_handler calls on another         *)
(* executor built from the same policy.  BackoffSpec: next_delay calls on  *)
(* one backoff value.  The parts a specification does not use stay in      *)
(* their initial state.  operation() and thread::sleep always return.      *)
(***************************************************************************)
vars == <<cbvars, rtvars, hvars, bvars>>

RTUnused ==
    /\ executor = RetryExecutor_new(ExponentialBackoff_new)
    /\ r_pc = "idle"
    /\ attempt = 0
    /\ delay = 0
    /\ log = <<>>
    /\ sleeps = <<>>
    /\ r_ret = RetNoneR
    /\ rcalls = 0

CBUnused ==
    /\ now = 0
    /\ inner = with_config([failure_threshold |-> 5, failure_window_ms |-> 60000,
                            reset_timeout_ms |-> 30000], 0)
    /\ lock = NoCaller
    /\ pc = [c \in Callers |-> "idle"]
    /\ invoked = [c \in Callers |-> 0]
    /\ ret = [c \in Callers |-> RetNone]
    /\ probe = NoCaller
    /\ flog = <<>>
    /\ ncalls = 0

BUnused ==
    /\ backoff = ExponentialBackoff_new
    /\ b_attempt = 0
    /\ b_out = NoDuration

Init == CBInit /\ RTUnused /\ HInit /\ BUnused

Next ==
    \/ Tick /\ UNCHANGED <<rtvars, hvars, bvars>>
    \/ \E c \in Callers : ExecuteLock(c) /\ UNCHANGED <<rtvars, hvars, bvars>>
    \/ \E c \in Callers : ExecutePreCheck(c) /\ UNCHANGED <<rtvars, hvars, bvars>>
    \/ \E c \in Callers : OperationOk(c) /\ UNCHANGED <<rtvars, hvars, bvars>>
    \/ \E c \in Callers : OperationErr(c) /\ UNCHANGED <<rtvars, hvars, bvars>>
    \/ \E c \in Callers : OnSuccess(c) /\ UNCHANGED <<rtvars, hvars, bvars>>
    \/ \E c \in Callers : OnFailure(c) /\ UNCHANGED <<rtvars, hvars, bvars>>
    \/ \E c \in Callers : ResetLock(c) /\ UNCHANGED <<rtvars, hvars, bvars>>
    \/ \E c \in Callers : Reset(c) /\ UNCHANGED <<rtvars, hvars, bvars>>
    \/ \E c \in Callers : StateLock(c) /\ UNCHANGED <<rtvars, hvars, bvars>>
    \/ \E c \in Callers : State(c) /\ UNCHANGED <<rtvars, hvars, bvars>>

Spec == Init /\ [][Next]_vars

RetryInit == RTInit /\ CBUnused /\ HInit /\ BUnused

\* One step of the retry call: operation() returns
Invoke == InvokeOk \/ \E err \in ErrorsOf(executor) : InvokeErr(err)

RetryNext ==
    \/ RetryStart /\ UNCHANGED <<cbvars, hvars, bvars>>
    \/ InvokeOk /\ UNCHANGED <<cbvars, hvars, bvars>>
    \/ \E err \in ErrorsOf(executor) : InvokeErr(err) /\ UNCHANGED <<cbvars, hvars, bvars>>
    \/ Wake /\ UNCHANGED <<cbvars, hvars, bvars>>

RetrySpec ==
    /\ RetryInit
    /\ [][RetryNext]_vars
    /\ WF_vars(Invoke /\ UNCHANGED <<cbvars, hvars, bvars>>)
    /\ WF_vars(Wake /\ UNCHANGED <<cbvars, hvars, bvars>>)

\* One step of the second call: operation() returns, on_error returns or panics
HandlerInvoke == HandlerInvokeOk \/ \E err \in ErrorsOf(executor) : HandlerInvokeErr(err)
OnError == OnErrorReturns \/ OnErrorPanics

PolicyNext ==
    \/ RetryStart /\ UNCHANGED <<cbvars, hvars, bvars>>
    \/ InvokeOk /\ UNCHANGED <<cbvars, hvars, bvars>>
    \/ \E err \in ErrorsOf(executor) : InvokeErr(err) /\ UNCHANGED <<cbvars, hvars, bvars>>
    \/ Wake /\ UNCHANGED <<cbvars, hvars, bvars>>
    \/ \E fn \in RetryFns : HandlerStart(fn) /\ UNCHANGED <<cbvars, rtvars, bvars>>
    \/ HandlerInvokeOk /\ UNCHANGED <<cbvars, rtvars, bvars>>
    \/ \E err \in ErrorsOf(executor) :
            HandlerInvokeErr(err) /\ UNCHANGED <<cbvars, rtvars, bvars>>
    \/ OnErrorReturns /\ UNCHANGED <<cbvars, rtvars, bvars>>
    \/ OnErrorPanics /\ UNCHANGED <<cbvars, rtvars, bvars>>
    \/ HandlerWake /\ UNCHANGED <<cbvars, rtvars, bvars>>

PolicySpec ==
    /\ RetryInit
    /\ [][PolicyNext]_vars
    /\ WF_vars(Invoke /\ UNCHANGED <<cbvars, hvars, bvars>>)
    /\ WF_vars(Wake /\ UNCHANGED <<cbvars, hvars, bvars>>)
    /\ WF_vars(HandlerInvoke /\ UNCHANGED <<cbvars, rtvars, bvars>>)
    /\ WF_vars(OnError /\ UNCHANGED <<cbvars, rtvars, bvars>>)
    /\ WF_vars(HandlerWake /\ UNCHANGED <<cbvars, rtvars, bvars>>)

BackoffInit == BInit /\ CBUnused /\ RTUnused /\ HInit

BackoffNext ==
    \/ \E n \in Attempts, jitter_factor \in JitterFactors :
            ExponentialNextDelay(n, jitter_factor) /\ UNCHANGED <<cbvars, rtvars, hvars>>
    \/ \E n \in Attempts : LinearNextDelay(n) /\ UNCHANGED <<cbvars, rtvars, hvars>>
    \/ \E n \in Attempts : FixedNextDelay(n) /\ UNCHANGED <<cbvars, rtvars, hvars>>

BackoffSpec == BackoffInit /\ [][BackoffNext]_vars

HealNext ==
    \/ HealTick /\ UNCHANGED <<rtvars, hvars, bvars>>
    \/ \E c \in Callers : ExecuteLock(c) /\ UNCHANGED <<rtvars, hvars, bvars>>
    \/ \E c \in Callers : ExecuteLockAgain(c) /\ UNCHANGED <<rtvars, hvars, bvars>>
    \/ \E c \in Callers : ExecutePreCheck(c) /\ UNCHANGED <<rtvars, hvars, bvars>>
    \/ \E c \in Callers : OperationOk(c) /\ UNCHANGED <<rtvars, hvars, bvars>>
    \/ \E c \in Callers : OperationErrEarly(c) /\ UNCHANGED <<rtvars, hvars, bvars>>
    \/ \E c \in Callers : OnSuccess(c) /\ UNCHANGED <<rtvars, hvars, bvars>>
    \/ \E c \in Callers : OnFailure(c) /\ UNCHANGED <<rtvars, hvars, bvars>>
    \/ \E c \in Callers : ResetLock(c) /\ UNCHANGED <<rtvars, hvars, bvars>>
    \/ \E c \in Callers : Reset(c) /\ UNCHANGED <<rtvars, hvars, bvars>>
    \/ \E c \in Callers : StateLock(c) /\ UNCHANGED <<rtvars, hvars, bvars>>
    \/ \E c \in Callers : State(c) /\ UNCHANGED <<rtvars, hvars, bvars>>

\* One step of caller c inside a call it has started.
Proceed(c) ==
    \/ ExecutePreCheck(c)
    \/ OperationOk(c)
    \/ OperationErrEarly(c)
    \/ OnSuccess(c)
    \/ OnFailure(c)
    \/ Reset(c)
    \/ State(c)

\* Time keeps advancing, every caller keeps calling execute, and a call that has
\* started runs to its end: the operation returns and a thread waiting for the Mutex
\* gets it.
HealSpec ==
    /\ Init
    /\ [][HealNext]_vars
    /\ WF_vars(HealTick /\ UNCHANGED <<rtvars, hvars, bvars>>)
    /\ \A c \in Callers :
        /\ SF_vars((ExecuteLock(c) \/ ExecuteLockAgain(c))
                        /\ UNCHANGED <<rtvars, hvars, bvars>>)
        /\ SF_vars(Proceed(c) /\ UNCHANGED <<rtvars, hvars, bvars>>)

(***************************************************************************)
(* Shorthands used by the properties below.                                *)
(***************************************************************************)
\* Time elapsed since last_state_change, as update_state computes it.
Elapsed == duration_since(now, inner.last_state_change)

\* The step in which caller c runs the body of the named critical section.
StepPreCheck(c) == pc[c] = "pre" /\ pc'[c] # "pre"
StepOnSuccess(c) == pc[c] = "on_success" /\ pc'[c] = "idle"
StepOnFailure(c) == pc[c] = "on_failure" /\ pc'[c] = "idle"
StepReset(c) == pc[c] = "reset" /\ pc'[c] = "idle"
StepState(c) == pc[c] = "state" /\ pc'[c] = "idle"

\* Number of entries of the sequence fs that are >= from.
CountFrom(fs, from) == Cardinality({i \in 1..Len(fs) : fs[i] >= from})

(***************************************************************************)
(* C1.  execute invokes the operation exactly once when its pre-check      *)
(* leaves the state different from Open, and zero times when the pre-check *)
(* observes Open with less than reset_timeout elapsed; in that case it     *)
(* returns a CircuitOpenError carrying the breaker's name and leaves       *)
(* state, failures and last_state_change unchanged.                        *)
(***************************************************************************)
C1_ExactlyOnceOrFailFast ==
    /\ [](\A c \in Callers :
            /\ pc[c] \in {"running", "on_success", "on_failure"} => invoked[c] = 1
            /\ ret[c].kind \in {"Ok", "Err"} => invoked[c] = 1
            /\ ret[c].kind = "CircuitOpen" =>
                    invoked[c] = 0 /\ ret[c] = CircuitOpenError(name))
    /\ [][\A c \in Callers : StepPreCheck(c) =>
            /\ inner'.state # "Open" => pc'[c] = "running" /\ invoked'[c] = 1
            /\ (inner.state = "Open" /\ Elapsed < inner.config.reset_timeout_ms) =>
                    /\ pc'[c] = "idle"
                    /\ invoked'[c] = 0
                    /\ ret'[c] = CircuitOpenError(name)
                    /\ inner' = inner]_vars

\* One caller's call failed after one invocation and tripped the breaker; another
\* caller's call was then rejected without any invocation.
C1_Witness ==
    \E c, d \in Callers :
        /\ ret[c].kind = "CircuitOpen" /\ invoked[c] = 0
        /\ ret[d].kind = "Err" /\ invoked[d] = 1
        /\ inner.state = "Open"

(***************************************************************************)
(* C2 (as stated).  A failure recorded while Closed opens the breaker iff  *)
(* the failure timestamps within failure_window of that moment, the new    *)
(* one included, number at least failure_threshold; otherwise the breaker  *)
(* stays Closed with the new timestamp appended.  In particular, with      *)
(* failure_threshold = 2 the first failed call leaves it Closed and the    *)
(* second failed call (one failure already recorded since the breaker was  *)
(* last closed) makes it Open.                                             *)
(***************************************************************************)
C2_TripIff ==
    \A c \in Callers : (StepOnFailure(c) /\ inner.state = "Closed") =>
        LET n == CountFrom(inner.failures, now - inner.config.failure_window_ms) + 1
        IN  /\ inner'.state = "Open" <=> n >= inner.config.failure_threshold
            /\ inner'.state \in {"Open", "Closed"}
            /\ inner'.state = "Closed" =>
                    /\ Len(inner'.failures) = n
                    /\ inner'.failures[n] = now

C2_FirstOfTwo ==
    \A c \in Callers :
        (StepOnFailure(c) /\ inner.state = "Closed"
            /\ inner.config.failure_threshold = 2 /\ inner.failures = <<>>)
        => inner'.state = "Closed"

C2_Original ==
    /\ [][C2_TripIff]_vars
    /\ [][C2_FirstOfTwo]_vars
    /\ [][\A c \in Callers :
            (StepOnFailure(c) /\ inner.state = "Closed"
                /\ inner.config.failure_threshold = 2 /\ Len(inner.failures) >= 1)
            => inner'.state = "Open"]_vars

(***************************************************************************)
(* C2 (amended).  As C2, except that the second failed call opens the      *)
(* breaker provided the earlier failure's timestamp is still within        *)
(* failure_window when the second failure is recorded.                     *)
(***************************************************************************)
C2_TripWithinWindow ==
    /\ [][C2_TripIff]_vars
    /\ [][C2_FirstOfTwo]_vars
    /\ [][\A c \in Callers :
            (StepOnFailure(c) /\ inner.state = "Closed"
                /\ inner.config.failure_threshold = 2 /\ Len(inner.failures) >= 1
                /\ inner.failures[Len(inner.failures)]
                        >= now - inner.config.failure_window_ms)
            => inner'.state = "Open"]_vars

\* With failure_threshold = 2, two failures inside one window have opened the breaker.
C2_Witness ==
    /\ inner.config.failure_threshold = 2
    /\ inner.state = "Open"
    /\ Len(inner.failures) = 2
    /\ flog = inner.failures

(***************************************************************************)
(* C3.  Failures older than failure_window never count toward tripping:    *)
(* after every threshold check the history holds no timestamp older than   *)
(* now - failure_window, and whenever the breaker goes from Closed to Open *)
(* at least failure_threshold failures were recorded within the interval   *)
(* [now - failure_window, now].                                            *)
(***************************************************************************)
C3_OnlyWindowedFailuresTrip ==
    /\ [][\A c \in Callers : (StepOnFailure(c) /\ inner.state # "HalfOpen") =>
            \A i \in 1..Len(inner'.failures) :
                inner'.failures[i] >= now - inner.config.failure_window_ms]_vars
    /\ [][(inner.state = "Closed" /\ inner'.state = "Open") =>
            CountFrom(flog', now - inner.config.failure_window_ms)
                >= inner.config.failure_threshold]_vars

\* With failure_threshold = 2, two failures further apart than failure_window were
\* recorded and the breaker is still Closed, the older timestamp having been dropped.
C3_Witness ==
    /\ inner.config.failure_threshold = 2
    /\ inner.state = "Closed"
    /\ Len(flog) = 2
    /\ flog[1] < flog[2] - inner.config.failure_window_ms
    /\ inner.failures = <<flog[2]>>

(***************************************************************************)
(* C4.  Open -> HalfOpen happens only in the pre-check of execute and only *)
(* when at least reset_timeout has elapsed since last_state_change; an     *)
(* execute made before the timeout elapses leaves the breaker Open.        *)
(***************************************************************************)
C4_LazyHalfOpen ==
    /\ [][(inner.state = "Open" /\ inner'.state = "HalfOpen") =>
            /\ \E c \in Callers : StepPreCheck(c)
            /\ Elapsed >= inner.config.reset_timeout_ms]_vars
    /\ [][\A c \in Callers :
            (StepPreCheck(c) /\ inner.state = "Open"
                /\ Elapsed < inner.config.reset_timeout_ms)
            => inner'.state = "Open"]_vars

\* A pre-check has moved the breaker to HalfOpen, reset_timeout after it opened, and
\* its caller is running the probe.
C4_Witness ==
    \E c \in Callers :
        /\ inner.state = "HalfOpen"
        /\ probe = c
        /\ pc[c] = "running"
        /\ Len(flog) >= 1
        /\ inner.last_state_change >= flog[Len(flog)] + inner.config.reset_timeout_ms

(***************************************************************************)
(* C5.  After the breaker has been Open for at least reset_timeout, the    *)
(* next execute moves it to HalfOpen and invokes its operation as a probe, *)
(* and the probe's outcome decides the next state: success => Closed with  *)
(* an empty failure history; failure => Open with last_state_change set to *)
(* the time of that failure.                                               *)
(***************************************************************************)
C5_ProbeDecides ==
    /\ [][\A c \in Callers :
            (StepPreCheck(c) /\ inner.state = "Open"
                /\ Elapsed >= inner.config.reset_timeout_ms)
            => /\ inner'.state = "HalfOpen"
               /\ pc'[c] = "running"
               /\ invoked'[c] = 1]_vars
    /\ [][\A c \in Callers : (StepOnSuccess(c) /\ probe = c) =>
            /\ inner'.state = "Closed"
            /\ inner'.failures = <<>>]_vars
    /\ [][\A c \in Callers : (StepOnFailure(c) /\ probe = c) =>
            /\ inner'.state = "Open"
            /\ inner'.last_state_change = now]_vars

(***************************************************************************)
(* C6.  While the breaker is HalfOpen exactly one call is admitted: an     *)
(* execute whose pre-check finds the breaker already HalfOpen (the probe's *)
(* outcome not yet recorded) does not invoke its operation.                *)
(***************************************************************************)
C6_SingleProbe ==
    [][\A c \in Callers : (StepPreCheck(c) /\ inner.state = "HalfOpen") =>
            /\ pc'[c] # "running"
            /\ invoked'[c] = 0]_vars

(***************************************************************************)
(* C7.  state() is a pure snapshot read: it returns the current state and  *)
(* changes none of state, failures, last_state_change; in particular it    *)
(* returns Open, and leaves the breaker Open, however long the breaker has *)
(* been Open.                                                              *)
(***************************************************************************)
C7_StateIsPure ==
    [][\A c \in Callers : StepState(c) =>
            /\ inner' = inner
            /\ ret'[c].kind = "State"
            /\ ret'[c].val = inner.state
            /\ inner.state = "Open" => inner'.state = "Open"]_vars

\* state() returned Open at an instant at which reset_timeout had already elapsed,
\* and the breaker is still Open.
C7_Witness ==
    \E c \in Callers :
        /\ ret[c].kind = "State"
        /\ ret[c].val = "Open"
        /\ inner.state = "Open"
        /\ ret[c].at >= inner.last_state_change + inner.config.reset_timeout_ms

(***************************************************************************)
(* C8.  reset() leaves the breaker Closed with an empty failure history    *)
(* and last_state_change set to the time of the reset, whatever the state  *)
(* before; an execute that finds the breaker Closed invokes its operation; *)
(* and a later trip needs failure_threshold failures recorded since the    *)
(* breaker was closed.                                                     *)
(***************************************************************************)
C8_ResetCloses ==
    /\ [][\A c \in Callers : StepReset(c) =>
            /\ inner'.state = "Closed"
            /\ inner'.failures = <<>>
            /\ inner'.last_state_change = now
            /\ inner'.config = inner.config]_vars
    /\ [][\A c \in Callers : (StepPreCheck(c) /\ inner.state = "Closed") =>
            pc'[c] = "running" /\ invoked'[c] = 1]_vars
    /\ [](inner.state = "Closed" =>
            \A i \in 1..Len(inner.failures) :
                inner.failures[i] >= inner.last_state_change)
    /\ [][(inner.state = "Closed" /\ inner'.state = "Open") =>
            /\ Len(inner'.failures) >= inner.config.failure_threshold
            /\ \A i \in 1..Len(inner'.failures) :
                    inner'.failures[i] >= inner.last_state_change]_vars

\* A breaker that a failure had opened (failure_threshold = 1, and at instant 0 no
\* reset_timeout has elapsed, so only reset() can have closed it) was reset, and an
\* execute made after the reset is running its operation.
C8_Witness ==
    \E c, d \in Callers :
        /\ now = 0
        /\ inner.config.failure_threshold = 1
        /\ Len(flog) = 1
        /\ ret[c] = RetUnit
        /\ inner.state = "Closed"
        /\ inner.failures = <<>>
        /\ pc[d] = "running"

(***************************************************************************)
(* C9.  The breaker's lock is never held by a caller whose operation is    *)
(* running: the lock is held only inside the pre-check, on_success,        *)
(* on_failure, reset and state critical sections.                          *)
(***************************************************************************)
C9_LockNotHeldDuringOperation ==
    /\ \A c \in Callers : pc[c] = "running" => lock # c
    /\ lock # NoCaller =>
            pc[lock] \in {"pre", "on_success", "on_failure", "reset", "state"}
    /\ \A c \in Callers :
            pc[c] \in {"pre", "on_success", "on_failure", "reset", "state"} => lock = c

\* While one caller's operation is running, another caller is inside a critical
\* section of the breaker (it took the lock without waiting for the operation).
C9_Witness ==
    \E c, d \in Callers :
        /\ pc[c] = "running"
        /\ lock = d
        /\ pc[d] \in {"pre", "reset", "state"}


(***************************************************************************)
(* C10.  Every retry call terminates after at most max_retries + 1         *)
(* invocations of the operation; when every invocation fails with an error *)
(* the predicate accepts, the operation is invoked exactly max_retries + 1 *)
(* times; with max_retries = 0 it is invoked exactly once and no sleep is  *)
(* made.                                                                   *)
(***************************************************************************)
AllFailedAndAccepted ==
    \A i \in 1..Len(log) : log[i] # "Ok" /\ should_retry(executor, log[i])

C10_RetryBudget ==
    /\ [](Len(log) <= executor.max_retries + 1)
    /\ [](r_pc \in {"sleep", "done"} => Len(log) >= 1)
    /\ []((r_pc = "done" /\ AllFailedAndAccepted) =>
            Len(log) = executor.max_retries + 1)
    /\ []((r_pc = "done" /\ executor.max_retries = 0) =>
            Len(log) = 1 /\ sleeps = <<>>)
    /\ (r_pc \in {"invoke", "sleep"}) ~> (r_pc = "done")

\* A retry call has returned the error of its last invocation after max_retries + 1
\* failed invocations, max_retries being at least 2.
C10_Witness ==
    /\ r_pc = "done"
    /\ r_ret.kind = "Err"
    /\ executor.max_retries >= 2
    /\ AllFailedAndAccepted
    /\ Len(log) = executor.max_retries + 1
    /\ Len(sleeps) = executor.max_retries

(***************************************************************************)
(* C11.  When retry returns a failure (budget exhausted or predicate       *)
(* rejection), the returned error is exactly the error produced by the     *)
(* last invocation of the operation, unwrapped and unchanged; errors of    *)
(* earlier invocations are never returned.                                 *)
(***************************************************************************)
C11_LastErrorReturned ==
    /\ [](r_ret.kind = "Err" =>
            /\ r_pc = "done"
            /\ Len(log) >= 1
            /\ r_ret.val = log[Len(log)])
    /\ [][(r_ret' # r_ret /\ r_ret'.kind = "Err") =>
            /\ r_pc = "invoke"
            /\ Len(log') = Len(log) + 1
            /\ r_ret'.val = log'[Len(log')]]_vars

\* A retry call returned "stop", the error of its second and last invocation, after a
\* first invocation had failed with "retry".
C11_Witness ==
    /\ r_pc = "done"
    /\ r_ret = [kind |-> "Err", val |-> "stop"]
    /\ log = <<"retry", "stop">>

(***************************************************************************)
(* C12.  retry returns success at the first successful invocation with no  *)
(* further invocation and no further sleep: an operation that fails k      *)
(* times (k <= max_retries, errors accepted by the predicate) and then     *)
(* succeeds is invoked exactly k + 1 times, preceded by exactly k sleeps,  *)
(* and retry returns Ok.                                                   *)
(***************************************************************************)
C12_SuccessStopsRetry ==
    /\ [](\A i \in 1..Len(log) : log[i] = "Ok" =>
            /\ i = Len(log)
            /\ r_pc = "done"
            /\ r_ret.kind = "Ok"
            /\ Len(sleeps) = i - 1)
    /\ [](r_ret.kind = "Ok" => Len(log) >= 1 /\ log[Len(log)] = "Ok")
    /\ [][(r_ret.kind = "Ok" /\ rcalls' = rcalls) =>
            log' = log /\ sleeps' = sleeps /\ r_ret' = r_ret]_vars

\* The operation failed twice and then succeeded: three invocations, two sleeps, Ok.
C12_Witness ==
    /\ r_pc = "done"
    /\ r_ret.kind = "Ok"
    /\ Len(log) = 3
    /\ log[1] # "Ok" /\ log[2] # "Ok" /\ log[3] = "Ok"
    /\ Len(sleeps) = 2

(***************************************************************************)
(* C13.  With a retry_if predicate set, retry stops at the first failure   *)
(* the predicate rejects: that error is returned immediately with no sleep *)
(* and no further invocation, whatever budget remains; in particular an    *)
(* operation whose first error is rejected is invoked exactly once even    *)
(* when max_retries > 0.                                                   *)
(***************************************************************************)
\* The predicate of the executor returns false for err.
Rejects(err) ==
    \/ executor.retry_if = "IsRetry" /\ err # "retry"
    \/ executor.retry_if = "Never"
    \/ executor.retry_if = "IsRetryable" /\ err # "Network"

C13_RejectionStopsRetry ==
    /\ [](\A i \in 1..Len(log) : (log[i] # "Ok" /\ Rejects(log[i])) =>
            /\ i = Len(log)
            /\ r_pc = "done"
            /\ r_ret = [kind |-> "Err", val |-> log[i]]
            /\ Len(sleeps) = i - 1)
    /\ []((Len(log) >= 1 /\ log[1] # "Ok" /\ Rejects(log[1])) => Len(log) = 1)

\* The first error was rejected by the predicate: one invocation, no sleep, although
\* two retries were allowed.
C13_Witness ==
    /\ r_pc = "done"
    /\ executor.retry_if = "IsRetry"
    /\ executor.max_retries >= 2
    /\ log = <<"stop">>
    /\ sleeps = <<>>
    /\ r_ret = [kind |-> "Err", val |-> "stop"]

(***************************************************************************)
(* C14.  Within one retry call the events are strictly sequential and the  *)
(* delay index starts at 0: the i-th invocation (i >= 2) starts only after *)
(* invocation i-1 has returned a failure and a sleep of exactly            *)
(* backoff.next_delay(i-2) has completed; no sleep follows the final       *)
(* invocation.                                                             *)
(***************************************************************************)
C14_SequentialFromZero ==
    /\ [](\A i \in 1..Len(sleeps) : sleeps[i] = next_delay(executor.backoff, i - 1))
    /\ [](\A i \in 1..(Len(log) - 1) : log[i] # "Ok")
    /\ [](r_pc = "invoke" => Len(sleeps) = Len(log))
    /\ [](r_pc = "sleep" =>
            /\ Len(sleeps) = Len(log) - 1
            /\ delay = next_delay(executor.backoff, Len(log) - 1))
    /\ [](r_pc = "done" => Len(sleeps) = Len(log) - 1)
    /\ [][Len(log') = Len(log) + 1 => (r_pc = "invoke" /\ sleeps' = sleeps)]_vars
    /\ [][Len(sleeps') = Len(sleeps) + 1 =>
            (r_pc = "sleep" /\ r_pc' = "invoke" /\ log' = log)]_vars

\* A call on an executor with linear backoff made three invocations separated by
\* sleeps of next_delay(0) = 100 and next_delay(1) = 200, and none after the last.
C14_Witness ==
    /\ r_pc = "done"
    /\ executor.backoff.kind = "Linear"
    /\ Len(log) = 3
    /\ sleeps = <<100, 200>>

(***************************************************************************)
(* C15.  retry_with_handler is retry plus a side-channel: for the same     *)
(* executor and the same sequence of operation outcomes it performs the    *)
(* same invocations and sleeps and returns the same result as retry, and   *)
(* it calls the observer exactly once before each sleep with (the error    *)
(* just returned, the 0-based attempt index, the delay about to be         *)
(* slept); the observer is not called for the error that ends the loop.    *)
(***************************************************************************)
StrictPrefix(a, b) == Len(a) < Len(b) /\ \A i \in 1..Len(a) : a[i] = b[i]

\* The retry_with_handler call and the retry call agree on every common prefix of
\* operation outcomes, and the observer calls are the ones described.
HandlerIsRetryPlusObserver ==
    /\ (hcalls >= 1 /\ StrictPrefix(h_log, log)) => h_pc \in {"invoke", "observe", "sleep"}
    /\ (rcalls >= 1 /\ StrictPrefix(log, h_log)) => r_pc \in {"invoke", "sleep"}
    /\ \A i \in 1..Min(Len(sleeps), Len(h_sleeps)) : sleeps[i] = h_sleeps[i]
    /\ (r_pc = "done" /\ h_pc = "done" /\ h_log = log) =>
            h_sleeps = sleeps /\ h_ret = r_ret
    /\ Len(observed) = Len(h_sleeps) + (IF h_pc = "sleep" THEN 1 ELSE 0)
    /\ \A i \in 1..Len(observed) :
            /\ observed[i].err = h_log[i]
            /\ observed[i].attempt = i - 1
            /\ observed[i].delay = next_delay(executor.backoff, i - 1)
    /\ h_pc = "done" => Len(observed) = Len(h_log) - 1

C15_HandlerIsRetryPlusObserver ==
    h_fn = "retry_with_handler" => HandlerIsRetryPlusObserver

\* The same property for the calls in which no observer call has panicked.
HandlerIsRetryPlusObserverIfObserverReturns ==
    (h_fn = "retry_with_handler" /\ \A i \in 1..Len(observed) : ~observed[i].panicked)
        => HandlerIsRetryPlusObserver

(***************************************************************************)
(* C16.  A failing observer cannot abort the retry loop: if the observer   *)
(* passed to retry_with_handler fails (panics) during a call, the executor *)
(* still sleeps, still makes the remaining attempts and still returns the  *)
(* operation's own final result.                                           *)
(***************************************************************************)
C16_ObserverFailureTolerated ==
    /\ [][(h_pc = "observe" /\ h_pc' # "observe") =>
            (h_pc' = "sleep" /\ h_delay' = h_delay)]_vars
    /\ [](h_pc # "unwound")
    /\ (h_pc = "observe") ~> (h_pc = "done")

(***************************************************************************)
(* C17 (as stated).  An executor obtained from a convenience constructor   *)
(* without an explicit with_max_retries makes 3 attempts in total by       *)
(* default: an always-failing operation is invoked exactly 3 times.        *)
(***************************************************************************)
C17_Original ==
    (executor \in DefaultExecutors /\ r_pc = "done" /\ AllFailedAndAccepted) =>
        Len(log) = 3

(***************************************************************************)
(* C17 (amended).  An executor obtained from a convenience constructor     *)
(* without an explicit with_max_retries has max_retries = 3, that is 4     *)
(* attempts in total: an always-failing operation is invoked exactly 4     *)
(* times, with 3 sleeps.                                                   *)
(***************************************************************************)
C17_DefaultThreeRetries ==
    /\ \A e \in DefaultExecutors : e.max_retries = 3 /\ e.retry_if = "None"
    /\ (executor \in DefaultExecutors /\ r_pc = "done" /\ AllFailedAndAccepted) =>
            Len(log) = 4 /\ Len(sleeps) = 3

\* A call on a default executor has returned after four failed invocations.
C17_Witness ==
    /\ executor \in DefaultExecutors
    /\ r_pc = "done"
    /\ r_ret.kind = "Err"
    /\ AllFailedAndAccepted
    /\ Len(log) = 4

(***************************************************************************)
(* C18.  A RetryExecutor carries no state between retry calls and          *)
(* executors built from one RetryPolicy are independent: for any sequence  *)
(* of earlier retry calls (on the same executor or on another executor     *)
(* built from the same policy, sequentially or concurrently), a new retry  *)
(* call has the full budget of max_retries + 1 invocations and its delays  *)
(* start again at next_delay(0).                                           *)
(***************************************************************************)
HandlerAllFailedAndAccepted ==
    \A i \in 1..Len(h_log) : h_log[i] # "Ok" /\ should_retry(executor, h_log[i])

C18_CallsAreIndependent ==
    /\ [][executor' = executor]_vars
    /\ [][<<r_pc, attempt, delay, log, sleeps, r_ret>>' # <<r_pc, attempt, delay, log,
            sleeps, r_ret>> => UNCHANGED hvars]_vars
    /\ [][hvars' # hvars => UNCHANGED rtvars]_vars
    /\ []((r_pc = "invoke" /\ log = <<>>) => attempt = 0)
    /\ []((h_pc = "invoke" /\ h_log = <<>>) => h_attempt = 0)
    /\ [](r_pc = "sleep" => delay = next_delay(executor.backoff, Len(log) - 1))
    /\ [](h_pc = "sleep" => h_delay = next_delay(executor.backoff, Len(h_log) - 1))
    /\ []((r_pc = "done" /\ AllFailedAndAccepted) =>
            Len(log) = executor.max_retries + 1)
    /\ []((h_pc = "done" /\ HandlerAllFailedAndAccepted) =>
            Len(h_log) = executor.max_retries + 1)

\* The second retry call on an executor used its full budget, its sleeps starting
\* again at next_delay(0), while a retry call on another executor built from the same
\* policy was in the middle of its own second call.
C18_Witness ==
    /\ rcalls = 2
    /\ r_pc = "done"
    /\ AllFailedAndAccepted
    /\ executor.backoff.kind = "Linear"
    /\ executor.max_retries = 2
    /\ Len(log) = 3
    /\ sleeps = <<100, 200>>
    /\ hcalls = 2
    /\ h_fn = "retry"
    /\ h_pc = "sleep"
    /\ Len(h_log) = 2

(***************************************************************************)
(* C19.  An executor from RetryPolicy::forge_executor (also used by        *)
(* ForgeErrorRecovery::retry) retries exactly the errors that classify     *)
(* themselves as retryable: an operation failing with an error whose       *)
(* is_retryable() is false is invoked exactly once and that error is       *)
(* returned, while failures whose is_retryable() is true are retried until *)
(* success or until max_retries + 1 invocations have been made.            *)
(***************************************************************************)
C19_ForgeExecutorRetriesRetryable ==
    executor \in ForgeExecutors =>
        /\ \A i \in 1..Len(log) : (log[i] # "Ok" /\ ~is_retryable(log[i])) =>
                /\ i = Len(log)
                /\ r_pc = "done"
                /\ r_ret = [kind |-> "Err", val |-> log[i]]
        /\ (Len(log) >= 1 /\ log[1] # "Ok" /\ ~is_retryable(log[1])) => Len(log) = 1
        /\ Len(log) <= executor.max_retries + 1
        /\ r_pc = "done" =>
                \/ log[Len(log)] = "Ok"
                \/ ~is_retryable(log[Len(log)])
                \/ Len(log) = executor.max_retries + 1
        /\ (r_pc = "done" /\ \A i \in 1..Len(log) : is_retryable(log[i])) =>
                Len(log) = executor.max_retries + 1

\* A forge executor retried two Network errors and returned the Config error of the
\* third invocation although one retry was left.
C19_Witness ==
    /\ executor \in ForgeExecutors
    /\ executor.max_retries = 3
    /\ r_pc = "done"
    /\ log = <<"Network", "Network", "Config">>
    /\ r_ret = [kind |-> "Err", val |-> "Config"]
    /\ Len(sleeps) = 2

(***************************************************************************)
(* C20.  For Linear and Exponential strategies (jitter on or off) and      *)
(* every attempt >= 0, including attempt = 0 and any configuration of      *)
(* initial and max, next_delay(attempt) is <= the configured max delay.    *)
(***************************************************************************)
C20_DelayAtMostMax ==
    (backoff.kind \in {"Exponential", "Linear"} /\ b_out.kind = "Duration") =>
        b_out.ms <= backoff.max_delay_ms

(***************************************************************************)
(* C23 (as stated).  With several callers sharing one breaker, no          *)
(* protected operation is in progress while the breaker's state is Open:   *)
(* in every reachable state, state = Open implies that no caller is        *)
(* between its pre-check and the recording of its outcome.                 *)
(***************************************************************************)
InProgress(c) == pc[c] \in {"running", "on_success", "on_failure"}

C23_Original ==
    inner.state = "Open" => \A c \in Callers : ~InProgress(c)

(***************************************************************************)
(* C23 (amended).  No protected operation is started while the breaker is  *)
(* Open: an operation starts only in a pre-check step that leaves the      *)
(* state Closed or HalfOpen, and a pre-check that leaves the state Open    *)
(* returns CircuitOpenError without invoking the operation.  (Operations   *)
(* admitted earlier may still be in progress while the breaker is Open.)   *)
(***************************************************************************)
C23_NoAdmissionWhileOpen ==
    /\ [][\A c \in Callers : (~InProgress(c) /\ InProgress(c)') =>
            /\ StepPreCheck(c)
            /\ pc'[c] = "running"
            /\ inner'.state \in {"Closed", "HalfOpen"}]_vars
    /\ [][\A c \in Callers : invoked'[c] > invoked[c] =>
            (StepPreCheck(c) /\ inner'.state # "Open")]_vars
    /\ [][\A c \in Callers : (StepPreCheck(c) /\ inner'.state = "Open") =>
            /\ pc'[c] = "idle"
            /\ invoked'[c] = 0
            /\ ret'[c] = CircuitOpenError(name)]_vars

\* The breaker is Open while the operation of a caller admitted earlier is still
\* running, and another caller's execute has been rejected without an invocation.
C23_Witness ==
    \E c, d \in Callers :
        /\ inner.state = "Open"
        /\ pc[c] = "running"
        /\ ret[d] = CircuitOpenError(name)
        /\ invoked[d] = 0
        /\ pc[d] = "idle"

(***************************************************************************)
(* C24.  The breaker leaves HalfOpen only through the outcome of the probe *)
(* call (the execute whose pre-check made the Open -> HalfOpen transition) *)
(* or through reset(): the outcome of a call that passed its pre-check     *)
(* earlier, while the breaker was still Closed, and completes while the    *)
(* breaker is HalfOpen never closes or re-opens the circuit.               *)
(***************************************************************************)
C24_OnlyProbeLeavesHalfOpen ==
    [][(inner.state = "HalfOpen" /\ inner'.state # "HalfOpen") =>
            \/ \E c \in Callers : StepReset(c)
            \/ \E c \in Callers :
                    /\ probe = c
                    /\ StepOnSuccess(c) \/ StepOnFailure(c)]_vars

(***************************************************************************)
(* C25.  A timestamp is appended to failures only while the breaker is     *)
(* Closed: a failure whose outcome is recorded while the state is Open or  *)
(* HalfOpen (a probe failure, or a concurrent call that started before the *)
(* trip) adds nothing to the failure history.                              *)
(***************************************************************************)
C25_AppendOnlyWhileClosed ==
    /\ [][\A c \in Callers : (StepOnFailure(c) /\ inner.state # "Closed") =>
            inner'.failures = inner.failures]_vars
    /\ [][Len(inner'.failures) > Len(inner.failures) => inner.state = "Closed"]_vars

\* The failure history is left alone by a failure recorded while HalfOpen.
FailureInHalfOpenAddsNothing ==
    [][\A c \in Callers : (StepOnFailure(c) /\ inner.state = "HalfOpen") =>
            inner'.failures = inner.failures]_vars

(***************************************************************************)
(* C26.  Every change of the breaker's state is one of: Closed -> Open     *)
(* (recording a failure), Open -> HalfOpen (execute pre-check after        *)
(* reset_timeout), HalfOpen -> Closed (recording a success), HalfOpen ->   *)
(* Open (recording a failure), or any state -> Closed by reset(); the      *)
(* initial state is Closed, and there is never a direct Closed -> HalfOpen *)
(* step nor an Open -> Closed step other than reset(), under any           *)
(* interleaving of concurrent callers.                                     *)
(***************************************************************************)
C26_TransitionRelation ==
    /\ [](ncalls = 0 => inner.state = "Closed")
    /\ [](inner.state \in CircuitState)
    /\ [][inner'.state # inner.state =>
            \/ /\ \E c \in Callers : StepReset(c)
               /\ inner'.state = "Closed"
            \/ /\ inner.state = "Closed" /\ inner'.state = "Open"
               /\ \E c \in Callers : StepOnFailure(c)
            \/ /\ inner.state = "Open" /\ inner'.state = "HalfOpen"
               /\ \E c \in Callers : StepPreCheck(c)
               /\ Elapsed >= inner.config.reset_timeout_ms
            \/ /\ inner.state = "HalfOpen" /\ inner'.state = "Closed"
               /\ \E c \in Callers : StepOnSuccess(c)
            \/ /\ inner.state = "HalfOpen" /\ inner'.state = "Open"
               /\ \E c \in Callers : StepOnFailure(c)]_vars

\* Two calls and no reset: the first failed and opened the breaker, the second was
\* the probe after reset_timeout and closed it again.
C26_Witness ==
    /\ ncalls = 2
    /\ \A c \in Callers : pc[c] = "idle" /\ ret[c].kind # "Unit"
    /\ inner.state = "Closed"
    /\ Len(flog) = 1
    /\ inner.last_state_change >= flog[1] + inner.config.reset_timeout_ms
    /\ \E c \in Callers : ret[c].kind = "Ok"

(***************************************************************************)
(* C27.  The breaker self-heals and has no terminal state: from any        *)
(* reachable state, if time keeps advancing, callers keep calling execute  *)
(* and the operation succeeds from some point on, the breaker eventually   *)
(* is Closed again (an Open breaker is not stuck Open, and a HalfOpen      *)
(* breaker is not stuck HalfOpen).                                         *)
(***************************************************************************)
C27_SelfHealing ==
    /\ (inner.state = "Open") ~> (inner.state = "Closed")
    /\ (inner.state = "HalfOpen") ~> (inner.state = "Closed")

\* After the first MaxCalls calls: a later success, recorded when the history had
\* reached failure_threshold, has just closed the breaker.
C27_Witness ==
    /\ ncalls = MaxCalls
    /\ Len(flog) >= inner.config.failure_threshold
    /\ inner.state = "Closed"
    /\ inner.last_state_change = now
    /\ \A c \in Callers : pc[c] = "idle" /\ ret[c].kind # "Unit"
    /\ \E c \in Callers :
            ret[c].kind = "Ok" /\ ret[c].seen >= inner.config.failure_threshold

(***************************************************************************)
(* C28.  last_state_change always equals the time of the most recent state *)
(* transition or reset(): it is written in the same critical section as    *)
(* every change of state, and operations that do not change state          *)
(* (state(), a rejected execute, a success recorded in Closed or Open, a   *)
(* failure recorded below threshold or recorded while Open) leave it       *)
(* unchanged.                                                              *)
(***************************************************************************)
C28_StampFollowsState ==
    /\ [][(inner'.state # inner.state \/ \E c \in Callers : StepReset(c)) =>
            inner'.last_state_change = now]_vars
    /\ [][(inner'.state = inner.state /\ ~(\E c \in Callers : StepReset(c))) =>
            inner'.last_state_change = inner.last_state_change]_vars
    /\ [](inner.last_state_change <= now)

\* The breaker was opened by its only failure at an earlier instant, an execute has
\* been rejected since, and last_state_change still is the instant of the trip.
C28_Witness ==
    /\ inner.state = "Open"
    /\ Len(flog) = 1
    /\ inner.last_state_change = flog[1]
    /\ now > inner.last_state_change
    /\ \A c \in Callers : ret[c].kind # "Unit"
    /\ \E c \in Callers : ret[c] = CircuitOpenError(name) /\ pc[c] = "idle"

(***************************************************************************)
(* C29.  A success recorded while the breaker is Closed changes nothing:   *)
(* state stays Closed and the failure history is not cleared, so failures  *)
(* that are separated by successful calls but fall within one              *)
(* failure_window still add up and trip the breaker at failure_threshold.  *)
(***************************************************************************)
C29_SuccessInClosedIsNoOp ==
    /\ [][\A c \in Callers : (StepOnSuccess(c) /\ inner.state = "Closed") =>
            inner' = inner]_vars
    /\ [][\A c \in Callers :
            (StepOnFailure(c) /\ inner.state = "Closed"
                /\ CountFrom(inner.failures, now - inner.config.failure_window_ms) + 1
                        >= inner.config.failure_threshold)
            => inner'.state = "Open"]_vars

\* With failure_threshold = 2 and three calls, a success was recorded when the history
\* held one failure, and the next failure opened the breaker.
C29_Witness ==
    /\ inner.config.failure_threshold = 2
    /\ ncalls = 3
    /\ inner.state = "Open"
    /\ Len(inner.failures) = 2
    /\ flog = inner.failures
    /\ \E c \in Callers : ret[c].kind = "Ok" /\ ret[c].seen = 1

(***************************************************************************)
(* C30.  For failure_threshold >= 1, in every reachable state observed     *)
(* outside a critical section, state = Closed implies that failures holds  *)
(* fewer than failure_threshold timestamps; this holds under any           *)
(* interleaving of concurrent execute calls and reset(), including         *)
(* failures recorded by calls that started before a trip.                  *)
(***************************************************************************)
C30_ClosedBelowThreshold ==
    (inner.config.failure_threshold >= 1 /\ inner.state = "Closed") =>
        Len(inner.failures) < inner.config.failure_threshold

\* With failure_threshold = 1 and three calls: two calls admitted while Closed both
\* failed, the second after the trip, and the probe's success closed the breaker.
C30_Witness ==
    /\ inner.config.failure_threshold = 1
    /\ ncalls = 3
    /\ Len(flog) = 2
    /\ inner.state = "Closed"
    /\ inner.failures = <<>>
    /\ \A c \in Callers : pc[c] = "idle" /\ ret[c].kind # "Unit"
    /\ \E c \in Callers : ret[c].kind = "Ok"

(***************************************************************************)
(* C21.  LinearBackoff::next_delay(attempt) equals                         *)
(* min(initial + attempt * increment, max) for every attempt >= 0,         *)
(* including attempts so large that attempt * increment or the sum exceeds *)
(* the 64-bit unsigned range (where the result must still be max, with no  *)
(* failure and no wrap-around).                                            *)
(***************************************************************************)
LinearLaw ==
    b_out = Duration_from_millis(
                Min(backoff.initial_delay_ms + b_attempt * backoff.increment_ms,
                    backoff.max_delay_ms))

C21_LinearLaw ==
    (backoff.kind = "Linear" /\ b_out.kind # "None") => LinearLaw

\* The same law for the calls whose sum stays within the u64 range.
LinearLawWithoutOverflow ==
    (/\ backoff.kind = "Linear"
     /\ b_out.kind # "None"
     /\ backoff.initial_delay_ms + b_attempt * backoff.increment_ms <= U64Max)
        => LinearLaw

(***************************************************************************)
(* C22.  ExponentialBackoff without jitter returns initial exactly for     *)
(* attempt = 0 and min(initial * factor^attempt, max) for attempt > 0;     *)
(* with jitter enabled, attempt = 0 still returns initial exactly and a    *)
(* later attempt returns a value between 0.8 and 1.2 times the capped      *)
(* delay.                                                                  *)
(***************************************************************************)
\* min(initial * factor^attempt, max) of the last call
CappedDelay ==
    Min(backoff.initial_delay_ms * powi(backoff.factor, b_attempt),
        backoff.max_delay_ms)

C22_ExponentialLaw ==
    (backoff.kind = "Exponential" /\ b_out.kind # "None") =>
        /\ b_out.kind = "Duration"
        /\ b_attempt = 0 => b_out.ms = backoff.initial_delay_ms
        /\ (b_attempt > 0 /\ ~backoff.jitter) => b_out.ms = CappedDelay
        /\ (b_attempt > 0 /\ backoff.jitter) =>
                /\ 80 * CappedDelay <= 100 * b_out.ms
                /\ 100 * b_out.ms <= 120 * CappedDelay

\* The law for the attempts that `attempt as i32` holds, the jittered delay being
\* the whole milliseconds of a value between 0.8 and 1.2 times the capped delay.
ExponentialLawWithinI32 ==
    (backoff.kind = "Exponential" /\ b_out.kind # "None" /\ b_attempt <= I32Max) =>
        /\ b_out.kind = "Duration"
        /\ b_attempt = 0 => b_out.ms = backoff.initial_delay_ms
        /\ (b_attempt > 0 /\ ~backoff.jitter) => b_out.ms = CappedDelay
        /\ (b_attempt > 0 /\ backoff.jitter) =>
                /\ 80 * CappedDelay < 100 * (b_out.ms + 1)
                /\ 100 * b_out.ms <= 120 * CappedDelay

====
